---- MODULE Spec2Model ----
(***************************************************************************)
(* Token-stream parser of parser/src/parsers.rs: the primitive token       *)
(* matchers, the nom combinators they are built from (verify, context,     *)
(* many0, many1) and the grammar rules parse_file, parse_module_stmt,      *)
(* parse_event_def and parse_event_field.                                  *)
(*                                                                         *)
(* A TokenSlice is a sequence of tokens; advancing a slice is Tail.  The   *)
(* error parameter E is instantiated with nom's VerboseError: a list of    *)
(* (slice, kind) entries, innermost first.  nom's light error              *)
(* (I, ErrorKind) is the first entry of that list (see SimpleError).       *)
(***************************************************************************)
EXTENDS Integers, Sequences, FiniteSets, TLC

VARIABLES lexed, tokens, input, call, res, pc, edits,
          i, acc, stmt_i, ev, fld, fields, steps

vars == <<lexed, tokens, input, call, res, pc, edits,
          i, acc, stmt_i, ev, fld, fields, steps>>

callVars == <<lexed, tokens, input, call, res, pc, edits>>
stepVars == <<i, acc, stmt_i, ev, fld, fields, steps>>

(***************************************************************************)
(* Tokens                                                                  *)
(***************************************************************************)
TokenInfo(typ, string) == [typ |-> typ, string |-> string]

TokenType ==
  {"NAME", "OP", "NUMBER", "STRING", "INDENT", "DEDENT", "NEWLINE",
   "ENDMARKER", "COMMENT", "NL"}

\* Name literals used in generated streams; "event" is also a legal identifier.
NameLits == <<"Greet", "event", "name", "Event">>

EVENT   == TokenInfo("NAME", "event")
COLON   == TokenInfo("OP", ":")
NEWLINE == TokenInfo("NEWLINE", "")
INDENT  == TokenInfo("INDENT", "")
DEDENT  == TokenInfo("DEDENT", "")
ENDMARKER == TokenInfo("ENDMARKER", "")
NL      == TokenInfo("NL", "")
COMMENT == TokenInfo("COMMENT", "#")
NAME(s) == TokenInfo("NAME", s)

\* Every token the bounded alphabet contains: each type, right and wrong
\* literals, and literals carried by the wrong type.
AllTokens ==
  {NAME(NameLits[n]) : n \in 1..Len(NameLits)} \cup
  {NAME(":"), COLON, TokenInfo("OP", "="), TokenInfo("OP", "event"),
   TokenInfo("NUMBER", "1"), TokenInfo("STRING", "'s'"),
   INDENT, DEDENT, NEWLINE, ENDMARKER, COMMENT, NL}

(***************************************************************************)
(* nom results and errors                                                  *)
(***************************************************************************)
Ok(rest, out) == [ok |-> TRUE, rest |-> rest, out |-> out]
Err(errors)   == [ok |-> FALSE, errors |-> errors]

\* ParseError::from_error_kind
from_error_kind(inp, kind) == <<[input |-> inp, tag |-> "Nom", val |-> kind]>>
\* ParseError::append
append(inp, kind, other) ==
  Append(other, [input |-> inp, tag |-> "Nom", val |-> kind])
\* ParseError::add_context
add_context(inp, ctx, other) ==
  Append(other, [input |-> inp, tag |-> "Context", val |-> ctx])

\* crate::errors::make_error
make_error(inp, kind) == Err(from_error_kind(inp, kind))

(***************************************************************************)
(* nom combinators                                                         *)
(***************************************************************************)
\* verify(first, second) applied to inp, r being first(inp) and accepted
\* standing for second(r.out), which is looked at only when first succeeded:
\* a failure of first is passed on, a rejected output is a Verify error at
\* inp.
verify(r, inp, accepted) ==
  IF ~r.ok THEN r
  ELSE IF accepted THEN r
  ELSE Err(from_error_kind(inp, "Verify"))

\* context(ctx, f) applied to inp, r being f(inp).
context(ctx, r, inp) ==
  IF r.ok THEN r ELSE Err(add_context(inp, ctx, r.errors))

(***************************************************************************)
(* Primitive matchers                                                      *)
(***************************************************************************)
\* Variant: the token is returned but the slice is not advanced.
one_token_stuck(inp) ==
  IF inp = <<>> THEN make_error(inp, "Eof")
  ELSE Ok(inp, Head(inp))

one_token(inp) ==
  IF inp = <<>> THEN make_error(inp, "Eof")
  ELSE Ok(Tail(inp), Head(inp))

token(typ, inp) == verify(one_token(inp), inp, Head(inp).typ = typ)

name_token(inp) == token("NAME", inp)

\* Variant: a literal mismatch is reported at the advanced slice.
name_string_consuming(string, inp) ==
  verify(name_token(inp), Tail(inp), Head(inp).string = string)

name_string(string, inp) ==
  verify(name_token(inp), inp, Head(inp).string = string)

op_token(inp) == token("OP", inp)

\* Variant: any OP token is accepted, whatever its literal.
op_string_any(string, inp) == op_token(inp)

op_string(string, inp) ==
  verify(op_token(inp), inp, Head(inp).string = string)

number_token(inp)    == token("NUMBER", inp)
string_token(inp)    == token("STRING", inp)
indent_token(inp)    == token("INDENT", inp)
dedent_token(inp)    == token("DEDENT", inp)
newline_token(inp)   == token("NEWLINE", inp)
endmarker_token(inp) == token("ENDMARKER", inp)

(***************************************************************************)
(* Grammar rules.  A rule is a chain of `let (i, x) = matcher(i)?;`        *)
(* statements; each statement is one definition below, which takes the     *)
(* results bound so far, returns the Err of the latest one (the `?`) or    *)
(* goes on to the next statement.  TLA+ defines before use, so a rule's    *)
(* statements appear last to first, the rule itself after them.            *)
(***************************************************************************)
EventField(name, typ) == [name |-> name, typ |-> typ]
EventDef(name, flds)  == [stmt |-> "EventDef", name |-> name, fields |-> flds]
Module(body)          == [body |-> body]

\* Variant: the captured name and type are stored the wrong way round.
field_ok_swapped(name, typ, r4) ==
  IF ~r4.ok THEN r4
  ELSE Ok(r4.rest, EventField(typ.out.string, name.out.string))

\* parse_event_field: Ok((i, EventField { name, typ })) after newline_token
field_ok(name, typ, r4) ==
  IF ~r4.ok THEN r4
  ELSE Ok(r4.rest, EventField(name.out.string, typ.out.string))

\* parse_event_field: let (i, _) = newline_token(i)?
field_newline(name, typ) ==
  IF ~typ.ok THEN typ ELSE field_ok(name, typ, newline_token(typ.rest))

\* parse_event_field: let (i, typ) = name_token(i)?
field_typ(name, r2) ==
  IF ~r2.ok THEN r2 ELSE field_newline(name, name_token(r2.rest))

\* parse_event_field: let (i, _) = op_string(":")(i)?
field_colon(name) ==
  IF ~name.ok THEN name ELSE field_typ(name, op_string(":", name.rest))

\* parse_event_field: let (i, name) = name_token(input)?
parse_event_field(inp) == field_colon(name_token(inp))

\* many1(parse_event_field) after its first element, r being
\* parse_event_field(inp): an Error ends the loop with the fields collected,
\* a field that consumed nothing is a Many1 error.
RECURSIVE many1_loop(_, _, _)
many1_loop(r, inp, out) ==
  IF ~r.ok THEN Ok(inp, out)
  ELSE IF r.rest = inp THEN Err(from_error_kind(inp, "Many1"))
  ELSE many1_loop(parse_event_field(r.rest), r.rest, Append(out, r.out))

\* many1(parse_event_field), r being parse_event_field(inp): the first
\* application has to succeed.
many1_first(r, inp) ==
  IF ~r.ok THEN Err(append(inp, "Many1", r.errors))
  ELSE many1_loop(parse_event_field(r.rest), r.rest, <<r.out>>)

\* Variant: many0 in place of many1.
many0_parse_event_field(inp) ==
  many1_loop(parse_event_field(inp), inp, <<>>)

many1_parse_event_field(inp) == many1_first(parse_event_field(inp), inp)

\* parse_event_def: Ok((i, EventDef { name, fields })) after dedent_token
event_ok(name, flds, r7) ==
  IF ~r7.ok THEN r7 ELSE Ok(r7.rest, EventDef(name.out.string, flds.out))

\* parse_event_def: let (i, _) = dedent_token(i)?
event_dedent(name, flds) ==
  IF ~flds.ok THEN flds ELSE event_ok(name, flds, dedent_token(flds.rest))

\* parse_event_def: let (i, fields) = many1(parse_event_field)(i)?
event_fields(name, r5) ==
  IF ~r5.ok THEN r5 ELSE event_dedent(name, many1_parse_event_field(r5.rest))

\* parse_event_def: let (i, _) = indent_token(i)?
event_indent(name, r4) ==
  IF ~r4.ok THEN r4 ELSE event_fields(name, indent_token(r4.rest))

\* parse_event_def: let (i, _) = newline_token(i)?
event_newline(name, r3) ==
  IF ~r3.ok THEN r3 ELSE event_indent(name, newline_token(r3.rest))

\* parse_event_def: let (i, _) = op_string(":")(i)?
event_colon(name) ==
  IF ~name.ok THEN name ELSE event_newline(name, op_string(":", name.rest))

\* parse_event_def: let (i, name) = name_token(i)?
event_name(r1) == IF ~r1.ok THEN r1 ELSE event_colon(name_token(r1.rest))

\* parse_event_def: let (i, _) = name_string("event")(input)?
parse_event_def(inp) == event_name(name_string("event", inp))

parse_module_stmt(inp) ==
  context("expected event definition", parse_event_def(inp), inp)

\* Variant: a single optional NEWLINE instead of a run of them.
opt_newline_token(r, inp, out) ==
  IF ~r.ok THEN Ok(inp, out) ELSE Ok(r.rest, Append(out, r.out))

\* many0(newline_token), r being newline_token(inp).
RECURSIVE many0_newline_token(_, _, _)
many0_newline_token(r, inp, out) ==
  IF ~r.ok THEN Ok(inp, out)
  ELSE IF r.rest = inp THEN Err(from_error_kind(inp, "Many0"))
  ELSE many0_newline_token(newline_token(r.rest), r.rest, Append(out, r.out))

\* many0(parse_module_stmt), r being parse_module_stmt(inp).
RECURSIVE many0_parse_module_stmt(_, _, _)
many0_parse_module_stmt(r, inp, out) ==
  IF ~r.ok THEN Ok(inp, out)
  ELSE IF r.rest = inp THEN Err(from_error_kind(inp, "Many0"))
  ELSE many0_parse_module_stmt(parse_module_stmt(r.rest), r.rest,
                               Append(out, r.out))

\* Variant: the module is returned even when no ENDMARKER follows.
file_ok_lenient(body, r3) ==
  IF ~r3.ok THEN Ok(body.rest, Module(body.out))
  ELSE Ok(r3.rest, Module(body.out))

\* parse_file: Ok((i, Module { body })) after endmarker_token
file_ok(body, r3) == IF ~r3.ok THEN r3 ELSE Ok(r3.rest, Module(body.out))

\* parse_file: let (i, _) = endmarker_token(i)?
file_endmarker(body) ==
  IF ~body.ok THEN body ELSE file_ok(body, endmarker_token(body.rest))

\* parse_file: let (i, body) = many0(parse_module_stmt)(i)?
file_body(r1) ==
  IF ~r1.ok THEN r1
  ELSE file_endmarker(
         many0_parse_module_stmt(parse_module_stmt(r1.rest), r1.rest, <<>>))

\* parse_file: let (i, _) = many0(newline_token)(input)?
parse_file(inp) ==
  file_body(many0_newline_token(newline_token(inp), inp, <<>>))

\* Variant: only COMMENT tokens are filtered out.
get_parse_tokens_keep_nl(toks) ==
  SelectSeq(toks, LAMBDA t : t.typ # "COMMENT")

\* The filter of get_parse_tokens over the tokenizer's output.
get_parse_tokens(toks) ==
  SelectSeq(toks, LAMBDA t : t.typ # "NL" /\ t.typ # "COMMENT")

\* The light error type (I, ErrorKind) of the tests: append and add_context
\* return the inner error unchanged, so it is the innermost entry.
SimpleError(errors) == errors[1]

(***************************************************************************)
(* Bounds and generated token streams                                      *)
(***************************************************************************)
MaxLead   == 2   \* leading NEWLINE tokens of a generated stream
MaxEvents == 2   \* event definitions of a generated stream
MaxFields == 2   \* fields of a generated event definition
MaxShort  == 2   \* length up to which every stream over AllTokens is drawn
MaxEdits  == 1   \* blank-line variants derived from one parsed source

RECURSIVE Concat(_)
Concat(ss) == IF ss = <<>> THEN <<>> ELSE Head(ss) \o Concat(Tail(ss))

Repeat(t, n) == [k \in 1..n |-> t]

\* Tokens of one field line "f: t" and of one event definition, as the
\* tokenizer emits them for the test sources.
FieldTokens(f) == <<NAME(f.name), COLON, NAME(f.typ), NEWLINE>>
EventTokens(d) ==
  <<EVENT, NAME(d.name), COLON, NEWLINE, INDENT>>
    \o Concat([q \in 1..Len(d.fields) |-> FieldTokens(d.fields[q])])
    \o <<DEDENT>>
Stream(lead, ds) ==
  Repeat(NEWLINE, lead)
    \o Concat([e \in 1..Len(ds) |-> EventTokens(ds[e])])
    \o <<ENDMARKER>>

\* The k-th name literal of a stream under naming offset off.
NameAt(k, off) == NameLits[((k + off) % Len(NameLits)) + 1]

\* Event definitions with the given field counts; every name slot takes the
\* next literal, so that neighbouring slots differ.
Descr(counts, off) ==
  [e \in 1..Len(counts) |->
     EventDef(NameAt(5 * e, off),
              [q \in 1..counts[e] |->
                 EventField(NameAt(5 * e + 2 * q - 1, off),
                            NameAt(5 * e + 2 * q, off))])]

Shapes == UNION {[1..k -> 1..MaxFields] : k \in 0..MaxEvents}

\* Streams whose event definitions may have no field line at all.
FieldlessShapes == UNION {[1..k -> 0..MaxFields] : k \in 0..MaxEvents}
Fieldless ==
  {Stream(lead, Descr(cs, 0)) : lead \in 0..1, cs \in FieldlessShapes}

WellFormed ==
  {Stream(lead, Descr(cs, off)) :
     lead \in 0..MaxLead, cs \in Shapes, off \in 0..(Len(NameLits) - 1)}

\* The streams that are varied token by token: every number of definitions
\* and of fields up to the bounds, with and without a leading NEWLINE.
MutationBase ==
  {Stream(lead, Descr([e \in 1..k |-> n], 0)) :
     lead \in 0..1, k \in 1..MaxEvents, n \in 1..MaxFields}

\* A token of every kind the rules tell apart, and of kinds they never ask for.
MutationTokens ==
  {NAME("Greet"), EVENT, COLON, TokenInfo("OP", "="), TokenInfo("NUMBER", "1"),
   INDENT, DEDENT, NEWLINE, ENDMARKER, NL}

Prefix(s, n) == SubSeq(s, 1, n)
Drop(s, n)   == SubSeq(s, n + 1, Len(s))
InsertAt(s, p, t) == Prefix(s, p) \o <<t>> \o Drop(s, p)

\* One-token departures from a generated stream.
Mutations(s) ==
  {[s EXCEPT ![p] = t] : p \in 1..Len(s), t \in MutationTokens} \cup
  {InsertAt(s, p, t) : p \in 0..Len(s), t \in MutationTokens} \cup
  {Prefix(s, p - 1) \o Drop(s, p) : p \in 1..Len(s)} \cup
  {Prefix(s, p) : p \in 0..Len(s)} \cup
  {Drop(s, p) : p \in 0..Len(s)}

ShortStreams == UNION {[1..n -> AllTokens] : n \in 0..MaxShort}

Inputs ==
  WellFormed \cup Fieldless \cup ShortStreams
    \cup UNION {Mutations(s) : s \in MutationBase}

(***************************************************************************)
(* Calls of the public functions                                           *)
(***************************************************************************)
NoResult == [ok |-> FALSE, errors |-> <<>>]

StepIdle ==
  /\ i = <<>> /\ acc = <<>> /\ stmt_i = <<>> /\ ev = "" /\ fld = <<>>
  /\ fields = <<>> /\ steps = 0

\* tokenize(source) has produced its result: a token vector or an error.
Init ==
  /\ lexed \in {[ok |-> TRUE, val |-> s] : s \in Inputs}
                 \cup {[ok |-> FALSE, val |-> <<>>]}
  /\ tokens = <<>>
  /\ input = <<>>
  /\ call = <<"none">>
  /\ res = NoResult
  /\ pc = "tokenized"
  /\ edits = 0
  /\ StepIdle

\* get_parse_tokens: `tokenize(source)?` then the NL/COMMENT filter.
GetParseTokens ==
  /\ pc = "tokenized"
  /\ IF lexed.ok
       THEN /\ tokens' = get_parse_tokens(lexed.val)
            /\ pc' = "tokens"
       ELSE /\ tokens' = tokens
            /\ pc' = "tokenize_failed"
  /\ UNCHANGED <<lexed, input, call, res, edits>>
  /\ UNCHANGED stepVars

\* A caller passes either the filtered vector or the tokenizer's raw vector.
Slices == {tokens, lexed.val}

Called(name, inp, r) ==
  /\ pc = "tokens"
  /\ input' = inp
  /\ call' = name
  /\ res' = r
  /\ pc' = "called"
  /\ UNCHANGED <<lexed, tokens, edits>>
  /\ UNCHANGED stepVars

CallOneToken == \E inp \in Slices : Called(<<"one_token">>, inp, one_token(inp))
CallToken ==
  \E inp \in Slices, typ \in TokenType :
    Called(<<"token", typ>>, inp, token(typ, inp))
CallNameString ==
  \E inp \in Slices, string \in {"event", "Greet"} :
    Called(<<"name_string", string>>, inp, name_string(string, inp))
CallOpString ==
  \E inp \in Slices, string \in {":", "="} :
    Called(<<"op_string", string>>, inp, op_string(string, inp))
CallParseEventField ==
  \E inp \in Slices : Called(<<"parse_event_field">>, inp, parse_event_field(inp))
CallParseEventDef ==
  \E inp \in Slices : Called(<<"parse_event_def">>, inp, parse_event_def(inp))
CallParseModuleStmt ==
  \E inp \in Slices : Called(<<"parse_module_stmt">>, inp, parse_module_stmt(inp))
CallParseFile ==
  \E inp \in Slices : Called(<<"parse_file">>, inp, parse_file(inp))

\* The positions of a source's token vector where a blank line can be put:
\* before the first statement, after a DEDENT, or before ENDMARKER.
Skipped(t) == t.typ \in {"NL", "COMMENT"}
FirstEndmarker(s) ==
  CHOOSE e \in 1..Len(s) :
    s[e].typ = "ENDMARKER" /\ \A k \in 1..(e - 1) : s[k].typ # "ENDMARKER"
BlankLinePositions(s) ==
  {p \in 0..(FirstEndmarker(s) - 1) :
     \/ \A k \in 1..p : Skipped(s[k]) \/ s[k].typ = "NEWLINE"
     \/ \E d \in 1..p : s[d].typ = "DEDENT" /\ \A k \in (d + 1)..p : Skipped(s[k])
     \/ \A k \in (p + 1)..(FirstEndmarker(s) - 1) : Skipped(s[k])}

\* The next example of the test loop: the source that parsed, with one more
\* blank line (NL or NEWLINE token), through get_parse_tokens and parse_file.
BlankLineVariant ==
  /\ pc = "called"
  /\ call = <<"parse_file">>
  /\ lexed.ok
  /\ input = tokens
  /\ res.ok
  /\ edits < MaxEdits
  /\ \E p \in BlankLinePositions(lexed.val), b \in {NL, NEWLINE} :
       LET source == InsertAt(lexed.val, p, b) IN
       /\ lexed' = [lexed EXCEPT !.val = source]
       /\ tokens' = get_parse_tokens(source)
       /\ input' = get_parse_tokens(source)
       /\ res' = parse_file(get_parse_tokens(source))
  /\ edits' = edits + 1
  /\ UNCHANGED <<call, pc>>
  /\ UNCHANGED stepVars

Next ==
  \/ GetParseTokens
  \/ CallParseEventField
  \/ CallParseEventDef
  \/ CallParseModuleStmt
  \/ CallParseFile
  \/ BlankLineVariant

Spec == Init /\ [][Next]_vars

\* The primitive matchers, called on any slice.
PrimInputs == ShortStreams \cup WellFormed

PrimInit ==
  /\ lexed \in {[ok |-> TRUE, val |-> s] : s \in PrimInputs}
  /\ tokens = lexed.val
  /\ input = <<>>
  /\ call = <<"none">>
  /\ res = NoResult
  /\ pc = "tokens"
  /\ edits = 0
  /\ StepIdle

PrimNext ==
  \/ CallOneToken
  \/ CallToken
  \/ CallNameString
  \/ CallOpString

PrimSpec == PrimInit /\ [][PrimNext]_vars

(***************************************************************************)
(* The grammar, stated over token positions                                *)
(*   file  ::= NEWLINE* event* ENDMARKER                                   *)
(*   event ::= 'event' NAME ':' NEWLINE INDENT (NAME ':' NAME NEWLINE)+    *)
(*             DEDENT                                                      *)
(* An event definition holds exactly one DEDENT, its last token, so the    *)
(* DEDENT positions of a stream fix where its definitions would end.       *)
(***************************************************************************)
Class(typ, any, string) == [typ |-> typ, any |-> any, string |-> string]
Matches(t, c) == t.typ = c.typ /\ (c.any \/ t.string = c.string)

\* Class of the k-th token of an event definition before its DEDENT.
HeaderOrField(k) ==
  IF k = 1 THEN Class("NAME", FALSE, "event")
  ELSE IF k = 2 THEN Class("NAME", TRUE, "")
  ELSE IF k = 3 THEN Class("OP", FALSE, ":")
  ELSE IF k = 4 THEN Class("NEWLINE", TRUE, "")
  ELSE IF k = 5 THEN Class("INDENT", TRUE, "")
  ELSE IF (k - 6) % 4 = 0 THEN Class("NAME", TRUE, "")
  ELSE IF (k - 6) % 4 = 1 THEN Class("OP", FALSE, ":")
  ELSE IF (k - 6) % 4 = 2 THEN Class("NAME", TRUE, "")
  ELSE Class("NEWLINE", TRUE, "")

\* s[a+1..n] is the beginning of an event definition, its DEDENT not reached.
PartialEvent(s, a, n) ==
  \A k \in 1..(n - a) : Matches(s[a + k], HeaderOrField(k))

\* s[a+1..b] is one whole event definition.
IsEvent(s, a, b) ==
  /\ b - a >= 10
  /\ (b - a - 6) % 4 = 0
  /\ b <= Len(s)
  /\ s[b].typ = "DEDENT"
  /\ PartialEvent(s, a, b - 1)

Dedents(s, a, b) == {p \in (a + 1)..b : s[p].typ = "DEDENT"}

\* s[a+1..b] is a concatenation of zero or more whole event definitions.
CompleteEvents(s, a, b) ==
  LET D == Dedents(s, a, b)
      Before(p) == IF \E q \in D : q < p
                     THEN CHOOSE q \in D : q < p /\ \A x \in D : x < p => x <= q
                     ELSE a
  IN /\ a <= b
     /\ a < b => b \in D
     /\ \A p \in D : IsEvent(s, Before(p), p)

AllNewline(s, n) == \A k \in 1..n : s[k].typ = "NEWLINE"

\* The lengths of the NEWLINE runs s begins with, and where s holds ENDMARKER.
Leads(s) == {n \in 0..Len(s) : AllNewline(s, n)}
Endmarkers(s) == {p \in 1..Len(s) : s[p].typ = "ENDMARKER"}

\* Prefix(s, e) is a whole file with lead leading NEWLINE tokens.
IsFile(s, lead, e) ==
  /\ 0 <= lead /\ lead < e /\ e <= Len(s)
  /\ s[e].typ = "ENDMARKER"
  /\ AllNewline(s, lead)
  /\ CompleteEvents(s, lead, e - 1)

SortedSeq(D) ==
  [j \in 1..Cardinality(D) |->
     CHOOSE p \in D : Cardinality({q \in D : q < p}) = j - 1]

\* The statements written in s[a+1..b], read off the token positions.
WrittenBody(s, a, b) ==
  LET B == SortedSeq({a} \cup Dedents(s, a, b)) IN
  [j \in 1..(Len(B) - 1) |->
     EventDef(s[B[j] + 2].string,
              [q \in 1..((B[j + 1] - B[j] - 6) \div 4) |->
                 EventField(s[B[j] + 4 * q + 2].string,
                            s[B[j] + 4 * q + 4].string)])]

Pos(whole, slice) == Len(whole) - Len(slice)

ParsedFile == pc = "called" /\ call = <<"parse_file">>

\* C1: a stream NEWLINE* (well-formed event definition)^k ENDMARKER parses
\* with an empty remainder to a Module holding exactly the k definitions in
\* stream order, each with the written name and the written fields, in
\* declaration order.
SingleStatementRoundTrip ==
  ParsedFile =>
    \A lead \in Leads(input) :
      IsFile(input, lead, Len(input)) =>
        /\ res.ok
        /\ res.rest = <<>>
        /\ res.out = Module(WrittenBody(input, lead, Len(input) - 1))

RoundTripWitness ==
  /\ ParsedFile
  /\ IsFile(input, 1, Len(input))
  /\ res.ok
  /\ Len(res.out.body) = 2
  /\ Len(res.out.body[1].fields) = 2
  /\ res.out.body[2].fields[1] # res.out.body[1].fields[2]

\* C3 as stated: the zero-token stream, and every stream of blank-line
\* tokens followed by one ENDMARKER, parses to Module { body: [] } with an
\* empty remainder.
BlankOnly(s) ==
  /\ Len(s) >= 1
  /\ s[Len(s)].typ = "ENDMARKER"
  /\ \A k \in 1..(Len(s) - 1) : s[k].typ \in {"NL", "NEWLINE"}

ParsedSource == ParsedFile /\ lexed.ok /\ input = tokens

EmptinessAsStated ==
  (ParsedSource /\ (lexed.val = <<>> \/ BlankOnly(lexed.val)))
    => res = Ok(<<>>, Module(<<>>))

\* C3 amended: every stream of zero or more blank-line tokens followed by
\* one ENDMARKER parses to Module { body: [] } with an empty remainder; the
\* zero-token stream fails with Eof at the empty slice.
Emptiness ==
  /\ (ParsedSource /\ BlankOnly(lexed.val)) => res = Ok(<<>>, Module(<<>>))
  /\ (ParsedFile /\ input = <<>>) => res = make_error(<<>>, "Eof")

EmptinessWitness ==
  /\ ParsedSource
  /\ BlankOnly(lexed.val)
  /\ \E k \in 1..Len(lexed.val) : lexed.val[k].typ = "NL"
  /\ \E k \in 1..Len(lexed.val) : lexed.val[k].typ = "NEWLINE"
  /\ res.ok

\* C4: every EventDef in a successful result of parse_event_def,
\* parse_module_stmt or parse_file has at least one field, and
\* 'event' NAME ':' NEWLINE INDENT DEDENT makes parse_event_def fail.
FieldlessEvent(s) ==
  /\ Len(s) >= 6
  /\ PartialEvent(s, 0, 5)
  /\ s[6].typ = "DEDENT"

LeadRun(s) ==
  CHOOSE n \in 0..Len(s) :
    AllNewline(s, n) /\ (n < Len(s) => s[n + 1].typ # "NEWLINE")

StartsEvent(s, m) == \E b \in (m + 1)..Len(s) : IsEvent(s, m, b)

\* The statements of s end at m: s[1..m] is the leading NEWLINE run and whole
\* event definitions, and no whole event definition starts at m.
StatementsEndAt(s, m) ==
  /\ LeadRun(s) <= m /\ m <= Len(s)
  /\ CompleteEvents(s, LeadRun(s), m)
  /\ ~StartsEvent(s, m)

\* Where statements can end: after the leading NEWLINE run or after a DEDENT.
Boundaries(s) == {LeadRun(s)} \cup Dedents(s, 0, Len(s))

NoSilentStop ==
  ParsedFile =>
    \A m \in Boundaries(input) :
      (StatementsEndAt(input, m)
         /\ (m = Len(input) \/ input[m + 1].typ # "ENDMARKER"))
        => ~res.ok

NoSilentStopWitness ==
  /\ ParsedFile
  /\ ~res.ok
  /\ \E m \in 10..(Len(input) - 6) :
       /\ StatementsEndAt(input, m)
       /\ PartialEvent(input, m, m + 6)

\* C8: one_token, token(T), name_string(s) and op_string(s) succeed iff the
\* slice is non-empty and its first token satisfies the matcher's predicate;
\* on success the output is the first token and the remainder the slice
\* advanced by one token; on failure the condition is Eof for the empty
\* slice and Verify otherwise, at the unadvanced slice.
Satisfies(c, t) ==
  IF c[1] = "one_token" THEN TRUE
  ELSE IF c[1] = "token" THEN t.typ = c[2]
  ELSE IF c[1] = "name_string" THEN t.typ = "NAME" /\ t.string = c[2]
  ELSE t.typ = "OP" /\ t.string = c[2]

Primitives == {"one_token", "token", "name_string", "op_string"}

PrimitiveMatcherContract ==
  (pc = "called" /\ call[1] \in Primitives) =>
    /\ res.ok <=> (input # <<>> /\ Satisfies(call, input[1]))
    /\ res.ok => (res.out = input[1] /\ res.rest = SubSeq(input, 2, Len(input)))
    /\ ~res.ok =>
         /\ Len(res.errors) = 1
         /\ res.errors[1].input = input
         /\ res.errors[1].tag = "Nom"
         /\ res.errors[1].val = (IF input = <<>> THEN "Eof" ELSE "Verify")

\* name_string("event") meets an OP token whose literal is "event".
PrimitiveMatcherWitness ==
  /\ pc = "called"
  /\ call = <<"name_string", "event">>
  /\ Len(input) = 2
  /\ input[1] = TokenInfo("OP", "event")
  /\ ~res.ok

\* C10: parse_file succeeds iff the stream has a prefix
\* NEWLINE* event* ENDMARKER; the remainder is then the suffix after that
\* ENDMARKER and the tokens consumed number
\* lead + sum of (6 + 4 * fields) + 1.
RECURSIVE DefinitionTokens(_)
DefinitionTokens(body) ==
  IF body = <<>> THEN 0
  ELSE 6 + 4 * Len(Head(body).fields) + DefinitionTokens(Tail(body))

Divergence(s) ==
  CHOOSE n \in 0..Len(s) :
    /\ PartialEvent(s, 0, n)
    /\ n < Len(s) => ~PartialEvent(s, 0, n + 1)

AtomicFailureLocation ==
  (pc = "called" /\ call = <<"parse_event_def">> /\ ~res.ok) =>
    Pos(input, SimpleError(res.errors).input) = Divergence(input)

\* C6 as stated: when parse_file fails, the failure carries the position of
\* the deepest attempted match, the context labels active there (a failure
\* inside an event definition carries "expected event definition") and the
\* elementary condition that failed there.
LastBoundary(s, n) ==
  LET D == {LeadRun(s)} \cup Dedents(s, LeadRun(s), n) IN
  CHOOSE m \in D : \A x \in D : x <= m

FileViable(s, n) ==
  \/ n <= LeadRun(s)
  \/ LET m == LastBoundary(s, n) IN
       /\ CompleteEvents(s, LeadRun(s), m)
       /\ PartialEvent(s, m, n)

DeepestAttempt(s) ==
  CHOOSE n \in 0..Len(s) :
    FileViable(s, n) /\ (n < Len(s) => ~FileViable(s, n + 1))

ContextLabels(errors) ==
  {errors[k].val : k \in {x \in 1..Len(errors) : errors[x].tag = "Context"}}

FailureOutputContract ==
  (ParsedFile /\ ~res.ok) =>
    LET deepest == DeepestAttempt(input)
        first   == SimpleError(res.errors)
    IN /\ Pos(input, first.input) = deepest
       /\ deepest > LastBoundary(input, deepest)
            => "expected event definition" \in ContextLabels(res.errors)
       /\ first.val = (IF deepest = Len(input) THEN "Eof" ELSE "Verify")

\* C2 as stated: a blank line inserted before the first statement, after a
\* DEDENT or before ENDMARKER into a source that parses leaves the parse
\* successful and the Module identical, whether the blank line is an NL
\* token or a NEWLINE token.
WhitespaceInvarianceAsStated ==
  [][edits' # edits => (res'.ok /\ res'.out = res.out)]_vars

\* C2 amended: the same holds for every inserted NL token, and for a
\* NEWLINE token inserted before the first statement.
InsertedNL ==
  \E p \in 0..Len(lexed.val) : lexed'.val = InsertAt(lexed.val, p, NL)
InsertedLeadingNewline ==
  \E p \in 0..Len(lexed.val) :
    /\ lexed'.val = InsertAt(lexed.val, p, NEWLINE)
    /\ \A k \in 1..p : Skipped(lexed.val[k]) \/ lexed.val[k].typ = "NEWLINE"

WhitespaceInvariance ==
  [][(edits' # edits /\ (InsertedNL \/ InsertedLeadingNewline))
       => (res'.ok /\ res'.out = res.out)]_vars

\* An NL token between two definitions of a source that still parses.
WhitespaceInvarianceWitness ==
  /\ edits = 1
  /\ ParsedSource
  /\ res.ok
  /\ Len(res.out.body) = 2
  /\ \E p \in 1..(Len(lexed.val) - 2) :
       /\ lexed.val[p].typ = "DEDENT"
       /\ lexed.val[p + 1].typ = "NL"
       /\ lexed.val[p + 2] = EVENT

(***************************************************************************)
(* parse_file step by step: one action per primitive matcher application,  *)
(* with the loops of many0 / many1 and the early returns of `?` unfolded.  *)
(*   i       the slice the next matcher is applied to                      *)
(*   stmt_i  the slice the current parse_module_stmt was applied to        *)
(*   fld     the current parse_event_field: its input slice, name, type    *)
(*   ev, fields, acc   the captured event name, its fields, the body       *)
(***************************************************************************)
NoField == [i |-> <<>>, name |-> "", typ |-> ""]

StepInputs == Inputs

InitSteps ==
  /\ input \in StepInputs
  /\ lexed = [ok |-> TRUE, val |-> input]
  /\ tokens = input
  /\ call = <<"parse_file">>
  /\ res = NoResult
  /\ edits = 0
  /\ pc = "file_newlines"
  /\ i = input
  /\ acc = <<>>
  /\ stmt_i = <<>>
  /\ ev = ""
  /\ fld = NoField
  /\ fields = <<>>
  /\ steps = 0

Frame == /\ UNCHANGED <<lexed, tokens, input, call, edits>>
         /\ steps' = steps + 1

\* parse_file returns r.
Return(r) ==
  /\ res' = r
  /\ pc' = "done"
  /\ UNCHANGED <<i, acc, stmt_i, ev, fld, fields>>

\* parse_module_stmt fails: many0 keeps the slice it was applied to and
\* parse_file goes on to endmarker_token.
StmtFails ==
  /\ i' = stmt_i
  /\ pc' = "endmarker"
  /\ UNCHANGED <<res, acc, stmt_i, ev, fld, fields>>

\* parse_event_field fails at slice at: many1 fails when it was the first
\* field, and returns the fields so far otherwise.
FieldFails(at) ==
  IF fields = <<>>
    THEN /\ i' = stmt_i
         /\ pc' = "endmarker"
         /\ UNCHANGED <<res, acc, stmt_i, ev, fld, fields>>
    ELSE /\ i' = at
         /\ pc' = "ev_dedent"
         /\ UNCHANGED <<res, acc, stmt_i, ev, fld, fields>>

\* many0(newline_token)
FileNewlines ==
  /\ pc = "file_newlines"
  /\ LET r == newline_token(i) IN
     IF ~r.ok
       THEN /\ pc' = "stmt"
            /\ UNCHANGED <<i, res, acc, stmt_i, ev, fld, fields>>
       ELSE IF r.rest = i
         THEN Return(make_error(i, "Many0"))
         ELSE /\ i' = r.rest
              /\ UNCHANGED <<pc, res, acc, stmt_i, ev, fld, fields>>
  /\ Frame

\* many0(parse_module_stmt) applies the rule: name_string("event")
StmtEvent ==
  /\ pc = "stmt"
  /\ LET r == name_string("event", i) IN
     IF ~r.ok
       THEN /\ pc' = "endmarker"
            /\ stmt_i' = i
            /\ UNCHANGED <<i, res, acc, ev, fld, fields>>
       ELSE /\ i' = r.rest
            /\ stmt_i' = i
            /\ fields' = <<>>
            /\ pc' = "ev_name"
            /\ UNCHANGED <<res, acc, ev, fld>>
  /\ Frame

EvName ==
  /\ pc = "ev_name"
  /\ LET r == name_token(i) IN
     IF ~r.ok THEN StmtFails
     ELSE /\ i' = r.rest
          /\ ev' = r.out.string
          /\ pc' = "ev_colon"
          /\ UNCHANGED <<res, acc, stmt_i, fld, fields>>
  /\ Frame

EvColon ==
  /\ pc = "ev_colon"
  /\ LET r == op_string(":", i) IN
     IF ~r.ok THEN StmtFails
     ELSE /\ i' = r.rest
          /\ pc' = "ev_newline"
          /\ UNCHANGED <<res, acc, stmt_i, ev, fld, fields>>
  /\ Frame

EvNewline ==
  /\ pc = "ev_newline"
  /\ LET r == newline_token(i) IN
     IF ~r.ok THEN StmtFails
     ELSE /\ i' = r.rest
          /\ pc' = "ev_indent"
          /\ UNCHANGED <<res, acc, stmt_i, ev, fld, fields>>
  /\ Frame

EvIndent ==
  /\ pc = "ev_indent"
  /\ LET r == indent_token(i) IN
     IF ~r.ok THEN StmtFails
     ELSE /\ i' = r.rest
          /\ pc' = "field_name"
          /\ UNCHANGED <<res, acc, stmt_i, ev, fld, fields>>
  /\ Frame

\* many1(parse_event_field) applies the rule: name_token
FieldName ==
  /\ pc = "field_name"
  /\ LET r == name_token(i) IN
     IF ~r.ok THEN FieldFails(i)
     ELSE /\ i' = r.rest
          /\ fld' = [i |-> i, name |-> r.out.string, typ |-> ""]
          /\ pc' = "field_colon"
          /\ UNCHANGED <<res, acc, stmt_i, ev, fields>>
  /\ Frame

FieldColon ==
  /\ pc = "field_colon"
  /\ LET r == op_string(":", i) IN
     IF ~r.ok THEN FieldFails(fld.i)
     ELSE /\ i' = r.rest
          /\ pc' = "field_typ"
          /\ UNCHANGED <<res, acc, stmt_i, ev, fld, fields>>
  /\ Frame

FieldTyp ==
  /\ pc = "field_typ"
  /\ LET r == name_token(i) IN
     IF ~r.ok THEN FieldFails(fld.i)
     ELSE /\ i' = r.rest
          /\ fld' = [fld EXCEPT !.typ = r.out.string]
          /\ pc' = "field_newline"
          /\ UNCHANGED <<res, acc, stmt_i, ev, fields>>
  /\ Frame

\* The field is whole; many1 loops unless the field consumed nothing.
FieldNewline ==
  /\ pc = "field_newline"
  /\ LET r == newline_token(i) IN
     IF ~r.ok THEN FieldFails(fld.i)
     ELSE IF fields # <<>> /\ r.rest = fld.i THEN StmtFails
     ELSE /\ i' = r.rest
          /\ fields' = Append(fields, EventField(fld.name, fld.typ))
          /\ pc' = "field_name"
          /\ UNCHANGED <<res, acc, stmt_i, ev, fld>>
  /\ Frame

\* The statement is whole; many0 loops unless the statement consumed nothing.
EvDedent ==
  /\ pc = "ev_dedent"
  /\ LET r == dedent_token(i) IN
     IF ~r.ok THEN StmtFails
     ELSE IF r.rest = stmt_i THEN Return(make_error(stmt_i, "Many0"))
     ELSE /\ i' = r.rest
          /\ acc' = Append(acc, EventDef(ev, fields))
          /\ pc' = "stmt"
          /\ UNCHANGED <<res, stmt_i, ev, fld, fields>>
  /\ Frame

FileEndmarker ==
  /\ pc = "endmarker"
  /\ LET r == endmarker_token(i) IN
     IF ~r.ok THEN Return(r)
     ELSE Return(Ok(r.rest, Module(acc)))
  /\ Frame

NextSteps ==
  \/ FileNewlines
  \/ StmtEvent
  \/ EvName
  \/ EvColon
  \/ EvNewline
  \/ EvIndent
  \/ FieldName
  \/ FieldColon
  \/ FieldTyp
  \/ FieldNewline
  \/ EvDedent
  \/ FileEndmarker

\* parse_file is straight-line, single-threaded code: a step that can be
\* taken is taken.
FairSpec == InitSteps /\ [][NextSteps]_vars /\ WF_vars(NextSteps)

\* The unfolded run returns what parse_file returns.
StepsAgree == pc = "done" => res = parse_file(input)

\* C9: parse_file returns on every finite token stream, because every
\* successful parse_event_field, parse_event_def / parse_module_stmt and
\* parse_file leaves a remainder strictly shorter than its input, and the
\* loops of many0 and many1 re-apply their rule only after the previous
\* application consumed a token.
StrictProgress ==
  /\ (pc = "field_newline" /\ pc' = "field_name") => Len(i') < Len(fld.i)
  /\ (pc = "ev_dedent" /\ pc' = "stmt") => Len(i') < Len(stmt_i)
  /\ (pc = "file_newlines" /\ pc' = "file_newlines") => Len(i') < Len(i)
  /\ (pc' = "done" /\ res'.ok) => Len(res'.rest) < Len(input)
  /\ ~(pc = "field_name" /\ pc' = "field_name")
  /\ ~(pc = "stmt" /\ pc' = "stmt")

TerminationByProgress ==
  /\ [][StrictProgress]_vars
  /\ <>(pc = "done")

\* A run that went twice round the statement loop and returned.
TerminationWitness ==
  /\ pc = "done"
  /\ res.ok
  /\ Len(acc) = 2
  /\ steps > Len(input)
====
